---- MODULE Spec2Model ----
(***************************************************************************)
(* Model of src/app.py: the Streamlit clothing-production forecaster.      *)
(*                                                                         *)
(* One script run (main) is one action.  The process-wide resource cache   *)
(* of @st.cache_resource, the artifact file on disk and the widgets'       *)
(* inputs are the state around it.  Predictions are fixed-point numbers    *)
(* in tenths (29 stands for 2.9), so that the float -> int cast of line    *)
(* 108 is a real conversion.                                               *)
(***************************************************************************)
EXTENDS Integers, Sequences, FiniteSets, TLC

VARIABLES
    file,            \* <<>> when MODEL_FILE is absent, else <<artifact>>
    cache,           \* st.cache_resource entry of load_ai_brain: <<>> or <<artifact>>
    disk_reads,      \* number of joblib.load calls so far (saturating)
    train_output,    \* regressor and encoder that train_model.py produces
    quicksort_ties,  \* how this build's quicksort orders equal keys
    clock_month,     \* month of the system clock, 1..12
    run,             \* locals and emitted elements of the latest script run
    pinned,          \* an earlier successful forecast, kept for comparison
    repeat           \* the latest run forecast the pinned month again

vars == <<file, cache, disk_reads, train_output, quicksort_ties, clock_month, run, pinned, repeat>>

----------------------------------------------------------------------------
(* Bounds *)

\* Number of products the encoder was fitted on.
MaxProducts == 2

\* disk_reads counts up to here and stays.
MaxReads == 3

\* Class vocabulary of the encoder, in LabelEncoder's sorted order.
ProductPool == <<"Hoodie", "Jacket", "Jeans", "Shorts", "T-Shirt">>

\* Per-product intercepts of the regressor, in tenths.
Intercepts == {-29, 29}

\* Years train_model.py may have seen last.
TrainingYears == {2024, 2025}

\* Months whose first successful forecast is kept for later comparison.
WatchedMonths == {"January", "December"}

\* Months that may pass between two script runs.
MonthsElapsed == {0, 1}

\* The feature schema main() assembles, and the other variant's schema.
YearSchema == <<"Year", "Month_Num", "Product_ID">>
MonthOnlySchema == <<"Month_Num", "Product_ID">>

----------------------------------------------------------------------------
(* Helpers *)

Range(s) == {s[i] : i \in DOMAIN s}

Reverse(s) == [i \in 1..Len(s) |-> s[Len(s) + 1 - i]]

Min(a, b) == IF a < b THEN a ELSE b

----------------------------------------------------------------------------
(* Configuration, line 18 *)

MODEL_FILE == "production_ai_brain.pkl"

----------------------------------------------------------------------------
(* calendar.month_name: index 0 is the empty string (position 1 here). *)

calendar_month_name ==
    <<"", "January", "February", "March", "April", "May", "June", "July",
      "August", "September", "October", "November", "December">>

\* enumerate(calendar.month_name): pairs (index, month), index from 0.
enumerate_month_name ==
    [k \in 1..Len(calendar_month_name) |->
        [index |-> k - 1, month |-> calendar_month_name[k]]]

\* {month: index for index, month in enumerate(calendar.month_name) if month}
\* Variant: the empty name dropped before enumerating, so January gets 0.
month_map_off_by_one ==
    LET kept == SelectSeq(enumerate_month_name, LAMBDA e : e.month # "")
    IN  [m \in {kept[k].month : k \in DOMAIN kept} |->
            (CHOOSE k \in DOMAIN kept : kept[k].month = m) - 1]

month_map ==
    LET kept == SelectSeq(enumerate_month_name, LAMBDA e : e.month # "")
    IN  [m \in {kept[k].month : k \in DOMAIN kept} |->
            kept[CHOOSE k \in DOMAIN kept : kept[k].month = m].index]

\* list(month_map.keys()): the keys in insertion order.
month_list ==
    LET kept == SelectSeq(enumerate_month_name, LAMBDA e : e.month \in DOMAIN month_map)
    IN  [k \in DOMAIN kept |-> kept[k].month]

----------------------------------------------------------------------------
(* Smart defaults, lines 56-68 *)

\* Variant: no wrap-around after December.
next_month_index_no_wrap(current_month_index) == current_month_index + 1

next_month_index(current_month_index) == (current_month_index % 12) + 1

default_list_index(current_month_index) == next_month_index(current_month_index) - 1

forecast_year(last_training_year) == last_training_year + 1

----------------------------------------------------------------------------
(* The artifact: {'model': ..., 'encoder': ..., 'last_year': ...}          *)

\* le.classes_ of an encoder fitted on the first n products of the pool.
Encoder(n) == SubSeq(ProductPool, 1, n)

\* A regressor: a per-product intercept plus a trend of 1.0 per month,
\* fitted on a known feature schema.
\* A regressor of the other schema never gets to predict here, so one stands
\* for all of them.
Regressors(n) ==
    [intercept : [1..n -> Intercepts], features : {YearSchema}]
        \cup {[intercept |-> [i \in 1..n |-> 0], features |-> MonthOnlySchema]}

\* What train_model.py can produce: a regressor and the encoder it was fitted with.
TrainOutputs == [model : Regressors(MaxProducts), encoder : {Encoder(MaxProducts)}]

Artifact(trained, last_year) ==
    [model |-> trained.model, encoder |-> trained.encoder, last_year |-> last_year]

\* le.transform(labels): the integer code of each label, 0-based.
le_transform(le, labels) ==
    [i \in 1..Len(labels) |-> (CHOOSE k \in 1..Len(le) : le[k] = labels[i]) - 1]

\* The DataFrame of lines 96-100: one row per product, in class order.
input_data(forecast_yr, month_num, le, all_products) ==
    LET codes == le_transform(le, all_products)
    IN  [i \in 1..Len(all_products) |->
            [Year |-> forecast_yr, Month_Num |-> month_num, Product_ID |-> codes[i]]]

\* model.predict(X): raises when X's columns are not the fitted schema,
\* else one prediction per row, in row order (tenths).
model_predict(model, X, columns) ==
    IF model.features # columns
    THEN [raised |-> TRUE, values |-> <<>>]
    ELSE [raised |-> FALSE,
          values |-> [i \in 1..Len(X) |->
              model.intercept[X[i].Product_ID + 1]
                + 10 * (12 * (X[i].Year - 2025) + X[i].Month_Num)]]

----------------------------------------------------------------------------
(* predictions.astype(int), line 108: C cast of a float, on tenths.        *)

\* Variant: floor instead of the cast.
astype_int_floor(p) == p \div 10

astype_int(p) == IF p >= 0 THEN p \div 10 ELSE -((-p) \div 10)

----------------------------------------------------------------------------
(* results.sort_values(by=..., ascending=False).reset_index(drop=True),    *)
(* line 111.  pandas' default kind is 'quicksort', which numpy does not    *)
(* document as stable: equal keys come out in an order the build decides.  *)

TieOrders == {"kept", "swapped"}

\* numpy argsort, ascending: positions of items in sorted order.
argsort(items, ties) ==
    LET n == Len(items)
        before(j, i) ==
            \/ items[j] < items[i]
            \/ /\ items[j] = items[i]
               /\ IF ties = "kept" THEN j < i ELSE j > i
        rank(i) == Cardinality({j \in 1..n : before(j, i)})
    IN  [k \in 1..n |-> CHOOSE i \in 1..n : rank(i) = k - 1]

\* pandas nargsort: for descending, reverse, argsort, reverse the indexer.
nargsort(items, ascending, ties) ==
    LET n == Len(items)
        idx == [i \in 1..n |-> i]
    IN  IF ascending
        THEN argsort(items, ties)
        ELSE LET rev_items == Reverse(items)
                 rev_idx == Reverse(idx)
                 sorter == argsort(rev_items, ties)
             IN  Reverse([k \in 1..n |-> rev_idx[sorter[k]]])

\* Variant: the ascending flag ignored.
sort_values_ascending(frame, ascending, ties) ==
    LET indexer == nargsort([i \in 1..Len(frame) |-> frame[i].quantity], TRUE, ties)
    IN  [k \in 1..Len(frame) |-> frame[indexer[k]]]

sort_values(frame, ascending, ties) ==
    LET indexer == nargsort([i \in 1..Len(frame) |-> frame[i].quantity], ascending, ties)
    IN  [k \in 1..Len(frame) |-> frame[indexer[k]]]

----------------------------------------------------------------------------
(* load_ai_brain under @st.cache_resource, lines 23-29.  A cache hit       *)
(* returns the stored object without running the body; st.stop() raises,   *)
(* so nothing is stored for a run that found no file.                      *)

\* Variant: without the decorator, the body runs on every call.
load_ai_brain_uncached(fs, cached) ==
    IF fs = <<>>
    THEN [stopped |-> TRUE, value |-> <<>>, cache |-> cached, reads |-> 0,
          ui |-> << <<"error", MODEL_FILE>>, <<"warning", "train_model.py">> >>]
    ELSE [stopped |-> FALSE, value |-> fs, cache |-> fs, reads |-> 1, ui |-> <<>>]

\* Variant: without st.stop(), joblib.load runs on the missing file.
load_ai_brain_no_stop(fs, cached) ==
    IF cached # <<>>
    THEN [stopped |-> FALSE, value |-> cached, cache |-> cached, reads |-> 0, ui |-> <<>>]
    ELSE IF fs = <<>>
    THEN [stopped |-> TRUE, value |-> <<>>, cache |-> <<>>, reads |-> 1,
          ui |-> << <<"error", MODEL_FILE>>, <<"warning", "train_model.py">>,
                    <<"exception", "FileNotFoundError">> >>]
    ELSE [stopped |-> FALSE, value |-> fs, cache |-> fs, reads |-> 1, ui |-> <<>>]

\* Variant: the cache entry is dropped when the file on disk has changed.
load_ai_brain_reload_on_change(fs, cached) ==
    IF cached # <<>> /\ (fs = <<>> \/ fs = cached)
    THEN [stopped |-> FALSE, value |-> cached, cache |-> cached, reads |-> 0, ui |-> <<>>]
    ELSE IF fs = <<>>
    THEN [stopped |-> TRUE, value |-> <<>>, cache |-> <<>>, reads |-> 0,
          ui |-> << <<"error", MODEL_FILE>>, <<"warning", "train_model.py">> >>]
    ELSE [stopped |-> FALSE, value |-> fs, cache |-> fs, reads |-> 1, ui |-> <<>>]

load_ai_brain(fs, cached) ==
    IF cached # <<>>
    THEN [stopped |-> FALSE, value |-> cached, cache |-> cached, reads |-> 0, ui |-> <<>>]
    ELSE IF fs = <<>>
    THEN [stopped |-> TRUE, value |-> <<>>, cache |-> <<>>, reads |-> 0,
          ui |-> << <<"error", MODEL_FILE>>, <<"warning", "train_model.py">> >>]
    ELSE [stopped |-> FALSE, value |-> fs, cache |-> fs, reads |-> 1, ui |-> <<>>]

----------------------------------------------------------------------------
(* st.sidebar.selectbox(label, options, index), lines 74-78: the user's    *)
(* choice (1..Len(options)), or options[index] while untouched (0).        *)
(* Streamlit raises when index is outside the options.                     *)

selectbox(options, index, choice) ==
    IF index < 0 \/ index >= Len(options)
    THEN [raised |-> TRUE, value |-> ""]
    ELSE [raised |-> FALSE,
          value |-> IF choice = 0 THEN options[index + 1] ELSE options[choice]]

----------------------------------------------------------------------------
(* The forecast block, lines 90-145.                                       *)

\* Variant: the last class left out.
all_products_but_last(le) == SubSeq(le, 1, Len(le) - 1)

\* all_products = le.classes_, line 94
all_products(le) == le

\* Lines 106-111: pair names with the cast predictions, then sort.
format_results(products, predictions, ties) ==
    sort_values(
        [i \in 1..Len(products) |->
            [name |-> products[i], quantity |-> astype_int(predictions[i])]],
        FALSE, ties)

\* Lines 113-145: the three views over results, in emission order.
render_views(selected_month, results) ==
    [ui |-> << <<"subheader", selected_month>> >>
              \o [k \in 1..Len(results) |-> <<"metric", results[k].name>>]
              \o << <<"divider", "">>, <<"subheader", "">>, <<"altair_chart", "">>,
                    <<"divider", "">>, <<"subheader", "">>, <<"dataframe", "">> >>,
     metrics |-> [k \in 1..Len(results) |->
                    [col |-> (k - 1) % 3, label |-> results[k].name,
                     value |-> results[k].quantity]],
     chart |-> results,
     table |-> results]

\* What the block emits after model.predict (line 103) returned or raised:
\* an exception leaves the block before line 106, else the views follow.
\* Variant: the exception swallowed, the views rendered on what there is.
after_predict_partial(raised, selected_month, results) ==
    LET views == render_views(selected_month, results)
    IN  [views EXCEPT !.ui = << <<"spinner", "">> >> \o views.ui]

after_predict(raised, selected_month, results) ==
    IF raised
    THEN [ui |-> << <<"spinner", "">>, <<"exception", "predict">> >>,
          metrics |-> <<>>, chart |-> <<>>, table |-> <<>>]
    ELSE LET views == render_views(selected_month, results)
         IN  [views EXCEPT !.ui = << <<"spinner", "">> >> \o views.ui]

----------------------------------------------------------------------------
(* State machine *)

\* Locals of a run that has not got past a given line keep these values.
NoRun ==
    [ui |-> <<>>, joblib_loads |-> 0, loaded |-> FALSE,
     current_month_index |-> -1, default_list_index |-> -1, forecast_year |-> -1,
     selected_month |-> "", run_forecast |-> FALSE, forecast_done |-> FALSE,
     month_num |-> -1, input_data |-> <<>>, predict_calls |-> 0, predictions |-> <<>>,
     results |-> <<>>, metrics |-> <<>>, chart |-> <<>>, table |-> <<>>]

Header == << <<"title", "">>, <<"markdown", "">>, <<"divider", "">> >>

Sidebar == << <<"sidebar.header", "">>, <<"sidebar.info", "">> >>

Init ==
    /\ train_output \in TrainOutputs
    /\ file \in {<<>>} \cup {<<Artifact(train_output, y)>> : y \in TrainingYears}
    /\ cache = <<>>
    /\ disk_reads = 0
    /\ quicksort_ties \in TieOrders
    /\ clock_month \in 1..12
    /\ run = NoRun
    /\ pinned = <<>>
    /\ repeat = FALSE

\* train_model.py writes MODEL_FILE (line 27 names it as the producer).
train_model ==
    /\ \E y \in TrainingYears : file' = <<Artifact(train_output, y)>>
    /\ UNCHANGED <<cache, disk_reads, train_output, quicksort_ties, clock_month,
                   run, pinned, repeat>>

\* MODEL_FILE is removed from the working directory (line 25 tests for it).
remove_model_file ==
    /\ file # <<>>
    /\ file' = <<>>
    /\ UNCHANGED <<cache, disk_reads, train_output, quicksort_ties, clock_month,
                   run, pinned, repeat>>

\* What triggers a script run: a page load (widgets untouched, any time
\* later), a new selection in the selectbox shown by the run before, or a
\* click on the button it showed, the selection left as it was.
Triggered(choice, clicked, elapsed) ==
    \/ choice = 0 /\ ~clicked
    \/ /\ run.selected_month # ""
       /\ elapsed = 0
       /\ choice \in 1..12
       /\ clicked => month_list[choice] = run.selected_month

\* One script run of main(), lines 34-145.  The state of the selectbox
\* (choice) and of the button (clicked) are the run's inputs, and so is the
\* system clock, which has moved on by some months since the run before.
main ==
    \E choice \in 0..12, clicked \in BOOLEAN, elapsed \in MonthsElapsed :
    Triggered(choice, clicked, elapsed) /\
    \E loaded \in {load_ai_brain(file, cache)} :
    \E today_month \in {((clock_month - 1 + elapsed) % 12) + 1} :
        /\ cache' = loaded.cache
        /\ disk_reads' = Min(disk_reads + loaded.reads, MaxReads)
        /\ clock_month' = today_month
        /\ UNCHANGED <<file, train_output, quicksort_ties>>
        /\ IF loaded.stopped
           THEN /\ run' = [NoRun EXCEPT !.ui = Header \o loaded.ui,
                                        !.joblib_loads = loaded.reads]
                /\ repeat' = FALSE
                /\ UNCHANGED pinned
           ELSE
           LET artifacts == loaded.value[1]
               model == artifacts.model
               le == artifacts.encoder
               last_training_year == artifacts.last_year
               current_month_index == today_month
               dflt == default_list_index(current_month_index)
               year == forecast_year(last_training_year)
               reached == [NoRun EXCEPT !.joblib_loads = loaded.reads,
                                        !.loaded = TRUE,
                                        !.current_month_index = current_month_index,
                                        !.default_list_index = dflt,
                                        !.forecast_year = year]
           IN  \E picked \in {selectbox(month_list, dflt, choice)} :
               IF picked.raised
               THEN /\ run' = [reached EXCEPT !.ui = Header \o Sidebar
                                   \o << <<"exception", "selectbox">> >>]
                    /\ repeat' = FALSE
                    /\ UNCHANGED pinned
               ELSE
               LET selected_month == picked.value
                   widgets == Sidebar
                       \o << <<"sidebar.selectbox", selected_month>>,
                             <<"sidebar.write", selected_month>>, <<"button", "">> >>
                   idle == [reached EXCEPT !.selected_month = selected_month,
                                           !.ui = Header \o widgets]
               IN  IF ~clicked
                   THEN /\ run' = idle
                        /\ repeat' = FALSE
                        /\ UNCHANGED pinned
                   ELSE
                   \E month_num \in {month_map[selected_month]} :
                   \E products \in {all_products(le)} :
                   \E X \in {input_data(year, month_num, le, products)} :
                   \E predicted \in {model_predict(model, X, YearSchema)} :
                   \E results \in {IF predicted.raised THEN <<>>
                                   ELSE format_results(products, predicted.values,
                                                       quicksort_ties)} :
                   \E shown \in {after_predict(predicted.raised, selected_month, results)} :
                   LET again == pinned # <<>> /\ pinned[1].month = selected_month
                       pin == <<[month |-> selected_month, year |-> year,
                                 results |-> results, artifacts |-> artifacts]>>
                   IN  /\ run' = [idle EXCEPT
                                    !.ui = Header \o widgets \o shown.ui,
                                    !.run_forecast = TRUE,
                                    !.forecast_done = ~predicted.raised,
                                    !.month_num = month_num,
                                    !.input_data = X,
                                    !.predict_calls = 1,
                                    !.predictions = predicted.values,
                                    !.results = results,
                                    !.metrics = shown.metrics,
                                    !.chart = shown.chart,
                                    !.table = shown.table]
                       /\ repeat' = (~predicted.raised /\ again)
                       /\ pinned' = IF predicted.raised \/ pinned # <<>>
                                       \/ selected_month \notin WatchedMonths
                                    THEN pinned ELSE pin

Next == main \/ train_model \/ remove_model_file

Spec == Init /\ [][Next]_vars

----------------------------------------------------------------------------
(* Vocabulary of the properties *)

\* The calendar, written out: the reference the month map is compared with.
CalendarNames ==
    <<"January", "February", "March", "April", "May", "June", "July",
      "August", "September", "October", "November", "December">>

CalendarNumber(name) == CHOOSE k \in 1..12 : CalendarNames[k] = name

Kinds(ui) == {ui[i][1] : i \in DOMAIN ui}

ViewKinds == {"subheader", "metric", "altair_chart", "dataframe"}

\* The latest run stopped in load_ai_brain on a missing file.
StoppedOnMissingFile == "error" \in Kinds(run.ui)

\* Position of a product in the cached encoder's class order.
ClassIndex(name) ==
    CHOOSE k \in 1..Len(cache[1].encoder) : cache[1].encoder[k] = name

\* q is p tenths truncated toward zero.
TruncatedTowardZero(p, q) ==
    /\ p >= 0 => (10 * q <= p /\ p < 10 * q + 10)
    /\ p < 0 => (10 * q - 10 < p /\ p <= 10 * q)

----------------------------------------------------------------------------
(* C1: after a successful forecast run the result is ordered by quantity   *)
(* descending: quantity[i] >= quantity[i+1] for all adjacent positions.    *)

C1_SortedDescending ==
    run.forecast_done =>
        \A i \in 1..(Len(run.results) - 1) :
            run.results[i].quantity >= run.results[i + 1].quantity

\* A forecast whose predictions ascend in class order, so the sort reordered.
C1_Witness ==
    /\ run.forecast_done
    /\ Len(run.results) >= 2
    /\ run.predictions[1] < run.predictions[2]
    /\ run.results[1].quantity > run.results[2].quantity

----------------------------------------------------------------------------
(* C2: products with equal integer quantities appear in the result in the  *)
(* encoder's class order (ties broken by stable original order).           *)

C2_TiesKeepClassOrder ==
    run.forecast_done =>
        \A i, j \in 1..Len(run.results) :
            (i < j /\ run.results[i].quantity = run.results[j].quantity)
                => ClassIndex(run.results[i].name) < ClassIndex(run.results[j].name)

----------------------------------------------------------------------------
(* C3: a forecast has exactly one row per class of the encoder: as many    *)
(* rows as classes, every known product once, whatever the month.          *)

C3_CoversVocabulary ==
    run.forecast_done =>
        /\ Len(run.results) = Len(cache[1].encoder)
        /\ Len(run.input_data) = Len(cache[1].encoder)
        /\ \A name \in Range(cache[1].encoder) :
               Cardinality({k \in 1..Len(run.results) : run.results[k].name = name}) = 1

\* A full forecast whose rows are not in class order.
C3_Witness ==
    /\ run.forecast_done
    /\ Len(run.results) = MaxProducts
    /\ run.results[1].name # cache[1].encoder[1]
    /\ run.selected_month = "July"

----------------------------------------------------------------------------
(* C4: the artifact file is read from disk at most once per process; the   *)
(* read fills the cache, later runs get the cached object without reading  *)
(* again, and a run that found no file neither reads nor fills the cache.  *)

C4_LoadedOnce ==
    /\ disk_reads <= 1
    /\ (cache # <<>>) <=> (disk_reads = 1)
    /\ run.joblib_loads <= disk_reads
    /\ run.loaded =>
           /\ cache # <<>>
           /\ run.forecast_year = cache[1].last_year + 1
    /\ StoppedOnMissingFile => (cache = <<>> /\ disk_reads = 0)

\* A later run served from the cache while the file on disk holds another
\* artifact.
C4_Witness ==
    /\ run.loaded
    /\ run.joblib_loads = 0
    /\ disk_reads = 1
    /\ file # <<>>
    /\ file # cache

----------------------------------------------------------------------------
(* C5: when the file is missing at load time, the run shows the error      *)
(* naming the file and the hint naming train_model.py and stops: no        *)
(* joblib.load, no artifact fields, no selector, no button, no forecast.   *)

C5_MissingFileStops ==
    (run.ui # <<>> /\ ~run.loaded) =>
        /\ run.ui = Header \o << <<"error", MODEL_FILE>>, <<"warning", "train_model.py">> >>
        /\ run.joblib_loads = 0
        /\ run.forecast_year = -1
        /\ run.selected_month = ""
        /\ ~run.run_forecast
        /\ run.predict_calls = 0
        /\ run.results = <<>> /\ run.metrics = <<>> /\ run.chart = <<>> /\ run.table = <<>>
        /\ Kinds(run.ui) \cap ({"sidebar.selectbox", "button", "spinner"} \cup ViewKinds) = {}

\* A run that stopped on the missing file although the file is back by now.
C5_Witness ==
    /\ StoppedOnMissingFile
    /\ cache = <<>>
    /\ file # <<>>

----------------------------------------------------------------------------
(* C6: the month map has exactly the twelve calendar months with values    *)
(* 1..12, January -> 1 ... December -> 12; the selector offers exactly     *)
(* its keys; every input row carries the selected month's number.          *)

C6_MonthNumbers ==
    /\ Cardinality(DOMAIN month_map) = 12
    /\ {month_map[m] : m \in DOMAIN month_map} = 1..12
    /\ Range(month_list) = DOMAIN month_map
    /\ Len(month_list) = 12
    /\ \A k \in 1..12 : month_map[CalendarNames[k]] = k
    /\ run.selected_month # "" => run.selected_month \in DOMAIN month_map
    /\ run.run_forecast =>
           /\ run.month_num = CalendarNumber(run.selected_month)
           /\ \A i \in 1..Len(run.input_data) :
                  run.input_data[i].Month_Num = CalendarNumber(run.selected_month)

\* A forecast for December, whose rows carry 12.
C6_Witness ==
    /\ run.run_forecast
    /\ run.selected_month = "December"
    /\ Len(run.input_data) >= 1
    /\ run.input_data[1].Month_Num = 12

----------------------------------------------------------------------------
(* C7: the selector's default index is the current month mod 12, always    *)
(* within 0..11, and names the month after the current one (12 -> 0).      *)

C7_DefaultNextMonth ==
    run.loaded =>
        /\ run.current_month_index \in 1..12
        /\ run.default_list_index = run.current_month_index % 12
        /\ run.default_list_index \in 0..11
        /\ month_list[run.default_list_index + 1]
               = CalendarNames[(run.current_month_index % 12) + 1]
        /\ run.selected_month # ""

\* A December run: index 0, January proposed.
C7_Witness ==
    /\ run.loaded
    /\ run.current_month_index = 12
    /\ run.default_list_index = 0
    /\ run.selected_month = "January"

----------------------------------------------------------------------------
(* C8: each quantity is the prediction truncated toward zero (2.9 -> 2,    *)
(* -2.9 -> -2), negatives kept, the same in tiles, chart and table.        *)

C8_TruncationTowardZero ==
    run.forecast_done =>
        /\ \A k \in 1..Len(run.results) :
               TruncatedTowardZero(run.predictions[ClassIndex(run.results[k].name)],
                                   run.results[k].quantity)
        /\ Len(run.metrics) = Len(run.results)
        /\ \A k \in 1..Len(run.results) :
               /\ run.metrics[k].label = run.results[k].name
               /\ run.metrics[k].value = run.results[k].quantity
        /\ run.chart = run.results
        /\ run.table = run.results

\* A forecast with a negative fractional prediction, shown as a negative tile.
C8_Witness ==
    /\ run.forecast_done
    /\ \E k \in 1..Len(run.results) :
           /\ run.predictions[ClassIndex(run.results[k].name)] = -19
           /\ run.results[k].quantity = -1
           /\ run.metrics[k].value = -1
    /\ \E k \in 1..Len(run.results) :
           /\ run.predictions[ClassIndex(run.results[k].name)] = 39
           /\ run.results[k].quantity = 3

----------------------------------------------------------------------------
(* C9: a forecast for a month forecast before gives the same rows in the   *)
(* same order and the same target year, last_year + 1, whatever happened   *)
(* in between; the cached artifact is the one the earlier forecast used.   *)

C9_Idempotent ==
    /\ repeat =>
           /\ run.results = pinned[1].results
           /\ run.forecast_year = pinned[1].year
           /\ run.selected_month = pinned[1].month
    /\ pinned # <<>> =>
           /\ cache = <<pinned[1].artifacts>>
           /\ pinned[1].year = pinned[1].artifacts.last_year + 1
    /\ run.loaded => run.forecast_year = cache[1].last_year + 1

\* The same month forecast again in a later month, the file on disk
\* retrained in between.
C9_Witness ==
    /\ repeat
    /\ file # <<>>
    /\ file # cache
    /\ Len(run.results) >= 2
    /\ run.results[1].quantity = run.results[2].quantity
    /\ run.current_month_index # CalendarNumber(run.selected_month)

----------------------------------------------------------------------------
(* C10: when the prediction step raises, the run ends there: one call of   *)
(* the regressor on the full batch, no retry, and no tile, chart or table. *)

C10_PredictFailureIsTerminal ==
    /\ (run.run_forecast /\ cache[1].model.features # YearSchema) =>
           /\ ~run.forecast_done
           /\ run.predict_calls = 1
           /\ Len(run.input_data) = Len(cache[1].encoder)
           /\ run.results = <<>> /\ run.metrics = <<>>
           /\ run.chart = <<>> /\ run.table = <<>>
           /\ Kinds(run.ui) \cap ViewKinds = {}
           /\ run.ui[Len(run.ui)] = <<"exception", "predict">>
    /\ run.forecast_done =>
           /\ run.predict_calls = 1
           /\ Len(run.predictions) = Len(cache[1].encoder)
           /\ cache[1].model.features = YearSchema

\* A forecast run on an artifact fitted with the other schema.
C10_Witness ==
    /\ run.run_forecast
    /\ ~run.forecast_done
    /\ cache # <<>>
    /\ cache[1].model.features = MonthOnlySchema
    /\ "exception" \in Kinds(run.ui)

====
